---- MODULE Spec2Model ----
(***************************************************************************)
(* A model of the ETL pipeline: DatabaseConnector and DataExtractor        *)
(* (src/src/extractor/database_extractor.py), DataLoader                   *)
(* (src/src/loader/database_loader.py) and ETLPipeline                     *)
(* (src/src/etl_pipeline.py).                                              *)
(*                                                                         *)
(* Every method is an operator from the state it reads (connector, engine, *)
(* arguments, the faults the engine raises during the call) to the state   *)
(* it leaves and the value it returns.  The actions apply the operators.   *)
(* Spec drives ETLPipeline.run; SpecLoader drives the DataLoader methods   *)
(* directly; SpecConn drives DatabaseConnector and DataExtractor.          *)
(***************************************************************************)
EXTENDS Integers, Sequences, FiniteSets, TLC

VARIABLES config, pc, result, src, tgt, srcdb, tgtdb, ext, log, last, calls

vars == <<config, pc, result, src, tgt, srcdb, tgtdb, ext, log, last, calls>>

(***************************************************************************)
(* Python values.  None and a list are kept apart by a tag.                *)
(***************************************************************************)
NoneV == [some |-> FALSE, v |-> <<>>]

Some(x) == [some |-> TRUE, v |-> x]

\* Python truthiness of an optional list: None and [] are both falsy.
Truthy(o) == o.some /\ o.v # <<>>

\* The SQL NULL stored in a column an insert does not name.
NULL == 0

Range(s) == {s[i] : i \in 1..Len(s)}

Min(a, b) == IF a < b THEN a ELSE b

\* Slice with the element at position j taken as well.
SliceInclusive(s, i, j) == SubSeq(s, i + 1, Min(j + 1, Len(s)))

\* s[i:j] of Python for 0 <= i: the elements at 0-based positions i..j-1.
Slice(s, i, j) == SubSeq(s, i + 1, Min(j, Len(s)))

(***************************************************************************)
(* Statements.  A statement is its text as far as the code reads it (the   *)
(* leading blanks and the first word) and what the engine makes of it.     *)
(***************************************************************************)
Words == {"SELECT", "select", "Select", "DELETE", "CREATE", "INSERT"}

\* str.upper on the first word.
Upper(w) ==
    CASE w = "select" -> "SELECT"
      [] w = "Select" -> "SELECT"
      [] OTHER -> w

\* str.strip: the leading blanks go, the first word is what remains in front.
Strip(q) == [q EXCEPT !.lead = ""]

\* query.strip().upper().startswith("SELECT")
StartsWithSelect(q) == Strip(q).lead = "" /\ Upper(Strip(q).word) = "SELECT"

(***************************************************************************)
(* Events: what a call does to an engine, in order.                        *)
(***************************************************************************)
\* ok is FALSE when the engine raised on the call.
Ev(e, side) == [e |-> e, side |-> side, ok |-> TRUE, cols |-> <<>>, rows |-> <<>>]

EvFailed(e, side) == [Ev(e, side) EXCEPT !.ok = FALSE]

\* executemany of rows under cols; on a failure rows are those before the
\* failing one.
InsertEv(side, cols, rows, ok) ==
    [e |-> "insert", side |-> side, ok |-> ok, cols |-> cols, rows |-> rows]

(***************************************************************************)
(* DatabaseConnector.  connection and cursor are 0 for None, otherwise the *)
(* number of the engine session they belong to.  desc is the cursor's      *)
(* description.                                                            *)
(***************************************************************************)
Lower(t) ==
    CASE t = "SQLite" -> "sqlite"
      [] t = "Oracle" -> "oracle"
      [] OTHER -> t

SupportedTypes == {"sqlite", "mysql", "postgresql"}

NewConnector(db_type) ==
    [db_type |-> Lower(db_type), connection |-> 0, cursor |-> 0,
     cursor_closed |-> FALSE, desc |-> NoneV]

\* An engine: its sessions and one table.  work is the table as the current
\* session sees it (uncommitted changes included), committed what is durable.
NewEngine(tbl, exists, cols, rows) ==
    [opened |-> 0, open |-> {}, tbl |-> tbl, exists |-> exists, cols |-> cols,
     committed |-> rows, work |-> rows]

ConnectFaults == {"none", "connect", "cursor"}

\* connect(): fault "connect" is the driver's connect raising, "cursor" is
\* connection.cursor() raising after the session was opened.
Connect(c, db, side, fault) ==
    IF c.db_type \notin SupportedTypes
    THEN [ret |-> FALSE, c |-> c, db |-> db, ev |-> <<>>]
    ELSE IF fault = "connect"
    THEN [ret |-> FALSE, c |-> c, db |-> db, ev |-> <<EvFailed("connect", side)>>]
    ELSE LET id == db.opened + 1
             db2 == [db EXCEPT !.opened = id, !.open = @ \cup {id},
                               !.work = db.committed]
         IN IF fault = "cursor"
            THEN [ret |-> FALSE, c |-> [c EXCEPT !.connection = id], db |-> db2,
                  ev |-> <<Ev("connect", side)>>]
            ELSE [ret |-> TRUE,
                  c |-> [c EXCEPT !.connection = id, !.cursor = id,
                                  !.cursor_closed = FALSE, !.desc = NoneV],
                  db |-> db2, ev |-> <<Ev("connect", side)>>]

DisconnectFaults == {"none", "cursor", "conn"}

\* Disconnect with the session closed before the cursor.
DisconnectSessionFirst(c, db, side, fault) ==
    IF c.connection = 0
    THEN [c |-> c, db |-> db, ev |-> <<>>]
    ELSE [c |-> [c EXCEPT !.cursor_closed = TRUE],
          db |-> [db EXCEPT !.open = @ \ {c.connection}, !.work = db.committed],
          ev |-> <<Ev("close", side), Ev("close_cursor", side)>>]

\* disconnect(): fault "cursor" is cursor.close() raising, "conn" is
\* connection.close() raising.  Neither field is reset.  The events are the
\* close of the cursor and the close of the session, in the order of the
\* calls.
Disconnect(c, db, side, fault) ==
    IF c.connection = 0
    THEN [c |-> c, db |-> db, ev |-> <<>>]
    ELSE IF c.cursor # 0 /\ fault = "cursor"
    THEN [c |-> c, db |-> db, ev |-> <<EvFailed("close_cursor", side)>>]
    ELSE LET c2 == IF c.cursor # 0 THEN [c EXCEPT !.cursor_closed = TRUE] ELSE c
             cur == IF c.cursor # 0 THEN <<Ev("close_cursor", side)>> ELSE <<>>
         IN IF fault = "conn"
            THEN [c |-> c2, db |-> db, ev |-> cur \o <<EvFailed("close", side)>>]
            ELSE [c |-> c2,
                  db |-> [db EXCEPT !.open = @ \ {c.connection},
                                    !.work = IF c.connection \in db.open
                                             THEN db.committed ELSE @],
                  ev |-> cur \o <<Ev("close", side)>>]

(***************************************************************************)
(* The engine's side of a statement.                                       *)
(***************************************************************************)
Stmt(lead, word, kind, table, cols, minAge, valid) ==
    [lead |-> lead, word |-> word, kind |-> kind, table |-> table, cols |-> cols,
     minAge |-> minAge, valid |-> valid]

ColIndex(cols, name) == CHOOSE i \in 1..Len(cols) : cols[i] = name

\* The columns a SELECT returns: the named ones, or all of them for "*".
SelectCols(db, q) == IF q.cols = <<>> THEN db.cols ELSE q.cols

RECURSIVE FilterRows(_, _, _)
FilterRows(rows, pos, minAge) ==
    IF rows = <<>> THEN <<>>
    ELSE LET rest == FilterRows(Tail(rows), pos, minAge)
         IN IF Head(rows)[pos] > minAge THEN <<Head(rows)>> \o rest ELSE rest

Project(cols, row, wanted) == [j \in 1..Len(wanted) |-> row[ColIndex(cols, wanted[j])]]

\* The rows a SELECT ... WHERE idade > minAge returns, in table order.
SelectRows(db, q) ==
    LET kept == FilterRows(db.work, ColIndex(db.cols, "idade"), q.minAge)
    IN [i \in 1..Len(kept) |-> Project(db.cols, kept[i], SelectCols(db, q))]

\* The statement is one the engine refuses: a syntax error, a table or a
\* column that does not exist.
EngineRejects(db, q) ==
    CASE q.kind = "select" ->
            \/ ~(db.exists /\ q.table = db.tbl)
            \/ ~(Range(q.cols) \cup {"idade"} \subseteq Range(db.cols))
      [] q.kind = "delete" -> ~(db.exists /\ q.table = db.tbl)
      [] q.kind = "create" -> ~q.valid
      [] OTHER -> TRUE

\* Apply with a CREATE that adds its columns to an existing table.
ApplyDuplicates(db, q) ==
    CASE q.kind = "delete" -> [db EXCEPT !.work = <<>>]
      [] q.kind = "create" ->
            IF db.exists THEN [db EXCEPT !.cols = @ \o q.cols]
            ELSE [db EXCEPT !.exists = TRUE, !.tbl = q.table, !.cols = q.cols,
                            !.committed = <<>>, !.work = <<>>]
      [] OTHER -> db

\* What a statement the engine accepts does to the session's view.  CREATE
\* TABLE IF NOT EXISTS leaves an existing table alone.
Apply(db, q) ==
    CASE q.kind = "delete" -> [db EXCEPT !.work = <<>>]
      [] q.kind = "create" ->
            IF db.exists THEN db
            ELSE [db EXCEPT !.exists = TRUE, !.tbl = q.table, !.cols = q.cols,
                            !.committed = <<>>, !.work = <<>>]
      [] OTHER -> db

Commit(db) == [db EXCEPT !.committed = db.work]

Rollback(db) == [db EXCEPT !.work = db.committed]

StmtFaults == {"none", "exec", "commit"}

\* execute_query(query): fault "exec" is cursor.execute raising for a reason
\* of the engine's own, "commit" is connection.commit() raising; rbOk is
\* whether connection.rollback() returns.  ret is None on every failure.
\* A closed cursor raises before it touches its description; a live one
\* has reset it when the statement raises.
ExecuteQuery(c, db, side, q, fault, rbOk) ==
    IF c.connection = 0 \/ c.cursor = 0
    THEN [ret |-> NoneV, c |-> c, db |-> db, ev |-> <<>>]
    ELSE LET live == c.cursor \in db.open /\ ~c.cursor_closed
             raises == ~live \/ fault = "exec" \/ EngineRejects(db, q)
             isSelect == StartsWithSelect(q)
             undo == IF isSelect THEN <<>>
                     ELSE IF rbOk /\ c.connection \in db.open
                     THEN <<Ev("rollback", side)>>
                     ELSE <<EvFailed("rollback", side)>>
             undone(d) == IF ~isSelect /\ rbOk /\ c.connection \in db.open
                          THEN Rollback(d) ELSE d
         IN IF raises
            THEN [ret |-> NoneV, c |-> IF live THEN [c EXCEPT !.desc = NoneV] ELSE c,
                  db |-> undone(db), ev |-> <<EvFailed(q.kind, side)>> \o undo]
            ELSE LET db2 == Apply(db, q)
                     desc == IF q.kind = "select" THEN Some(SelectCols(db, q)) ELSE NoneV
                     c2 == [c EXCEPT !.desc = desc]
                 IN IF isSelect
                    THEN [ret |-> Some(SelectRows(db, q)), c |-> c2, db |-> db2,
                          ev |-> <<Ev(q.kind, side)>>]
                    ELSE IF fault = "commit" \/ c.connection \notin db.open
                    THEN [ret |-> NoneV, c |-> c2, db |-> undone(db2),
                          ev |-> <<Ev(q.kind, side), EvFailed("commit", side)>> \o undo]
                    ELSE [ret |-> Some(<<>>), c |-> c2, db |-> Commit(db2),
                          ev |-> <<Ev(q.kind, side), Ev("commit", side)>>]

\* get_column_names(): the names in cursor.description; None when there is
\* no cursor, when the type has no branch, or when description is None.
GetColumnNames(c) ==
    IF c.cursor = 0 THEN NoneV
    ELSE IF c.db_type \notin SupportedTypes THEN NoneV
    ELSE c.desc

(***************************************************************************)
(* DataExtractor.                                                          *)
(***************************************************************************)
NewExtractor == [data |-> NoneV, columns |-> NoneV]

\* Lines 52-54, 149-151, 182-184: connect() is called where connection is
\* None; a connector that has one is taken as connected.
Connected(c, db, side, cfault) ==
    IF c.connection = 0 THEN Connect(c, db, side, cfault)
    ELSE [ret |-> TRUE, c |-> c, db |-> db, ev |-> <<>>]

\* Lines 187-199: r is what execute_query left; data is assigned before the
\* test for None, columns only after it.
ExtractExecuted(x, ev, r) ==
    IF ~r.ret.some
    THEN [ret |-> FALSE, x |-> [x EXCEPT !.data = r.ret], c |-> r.c, db |-> r.db,
          ev |-> ev \o r.ev]
    ELSE [ret |-> Truthy(GetColumnNames(r.c)),
          x |-> [x EXCEPT !.data = r.ret, !.columns = GetColumnNames(r.c)],
          c |-> r.c, db |-> r.db, ev |-> ev \o r.ev]

\* Lines 182-199: con is what the lazy connect left.
ExtractConnected(x, con, side, q, fault, rbOk) ==
    IF ~con.ret
    THEN [ret |-> FALSE, x |-> x, c |-> con.c, db |-> con.db, ev |-> con.ev]
    ELSE ExtractExecuted(x, con.ev, ExecuteQuery(con.c, con.db, side, q, fault, rbOk))

\* ExtractData without the check of line 175.
ExtractDataUnchecked(x, c, db, side, q, cfault, fault, rbOk) ==
    ExtractConnected(x, Connected(c, db, side, cfault), side, q, fault, rbOk)

\* extract_data(query): the query is checked, the connector connected if
\* its connection is None, the query executed, the column names read.
ExtractData(x, c, db, side, q, cfault, fault, rbOk) ==
    IF ~StartsWithSelect(q)
    THEN [ret |-> FALSE, x |-> x, c |-> c, db |-> db, ev |-> <<>>]
    ELSE ExtractConnected(x, Connected(c, db, side, cfault), side, q, fault, rbOk)

(***************************************************************************)
(* DataLoader.                                                             *)
(***************************************************************************)
\* A dict is the sequence of its <<key, value>> pairs in insertion order.
HasKey(m, k) == \E i \in 1..Len(m) : m[i][1] = k

Lookup(m, k) == m[CHOOSE i \in 1..Len(m) : m[i][1] = k][2]

\* Lines 59-65: the source columns that are keys of the mapping, in the
\* order of source_columns.
RECURSIVE SourceIndices(_, _, _)
SourceIndices(source_columns, mapping, i) ==
    IF i > Len(source_columns) THEN <<>>
    ELSE (IF HasKey(mapping, source_columns[i]) THEN <<i>> ELSE <<>>)
         \o SourceIndices(source_columns, mapping, i + 1)

DestOfIndices(source_columns, mapping, idx) ==
    [j \in 1..Len(idx) |-> Lookup(mapping, source_columns[idx[j]])]

\* Line 74: tuple(row[i] for i in source_indices).
FilteredRow(row, idx) == [j \in 1..Len(idx) |-> row[idx[j]]]

\* Lines 57-91.  status is "ok", "fail" (return False) or "raise" (row[i]
\* on a row shorter than the index: the IndexError is not caught).
Resolve(a) ==
    IF Truthy(a.column_mapping)
    THEN LET idx == SourceIndices(a.source_columns, a.column_mapping.v, 1)
             dest == DestOfIndices(a.source_columns, a.column_mapping.v, idx)
         IN IF dest = <<>>
            THEN [status |-> "fail", dest |-> <<>>, rows |-> <<>>]
            ELSE IF \E r \in 1..Len(a.data) : \E j \in 1..Len(idx) : idx[j] > Len(a.data[r])
            THEN [status |-> "raise", dest |-> dest, rows |-> <<>>]
            ELSE [status |-> "ok", dest |-> dest,
                  rows |-> [r \in 1..Len(a.data) |-> FilteredRow(a.data[r], idx)]]
    ELSE IF Truthy(a.target_columns)
    THEN IF Len(a.target_columns.v) # Len(a.source_columns)
         THEN [status |-> "fail", dest |-> <<>>, rows |-> <<>>]
         ELSE [status |-> "ok", dest |-> a.target_columns.v, rows |-> a.data]
    ELSE [status |-> "ok", dest |-> a.source_columns, rows |-> a.data]

\* The row as the table keeps it: the values under the named columns, NULL
\* under the others.
StoredRow(cols, dest, row) ==
    [k \in 1..Len(cols) |->
        IF cols[k] \in Range(dest) THEN row[ColIndex(dest, cols[k])] ELSE NULL]

\* The engine refuses the insert of one row.
RowRejected(c, db, table, dest, row) ==
    \/ ~(c.cursor \in db.open /\ ~c.cursor_closed)
    \/ ~(db.exists /\ table = db.tbl)
    \/ ~(Range(dest) \subseteq Range(db.cols))
    \/ Len(row) # Len(dest)

\* The first row of the batch whose insert raises, 0 when none does:
\* failAt is the row the engine fails for a reason of its own (a
\* constraint), 0 for none.
FirstFailing(c, db, table, dest, batch, failAt) ==
    LET bad == {j \in 1..Len(batch) :
                    j = failAt \/ RowRejected(c, db, table, dest, batch[j])}
    IN IF bad = {} THEN 0 ELSE CHOOSE j \in bad : \A k \in bad : j <= k

\* cursor.executemany(insert_query, batch): the rows go into the session's
\* transaction one by one, up to the first that raises.
ExecuteMany(c, db, side, table, dest, batch, failAt) ==
    LET j == FirstFailing(c, db, table, dest, batch, failAt)
        done == IF j = 0 THEN batch ELSE SubSeq(batch, 1, j - 1)
        stored == [k \in 1..Len(done) |-> StoredRow(db.cols, dest, done[k])]
    IN [ok |-> j = 0, db |-> [db EXCEPT !.work = @ \o stored],
        ev |-> <<InsertEv(side, dest, done, j = 0)>>]

NoFault == [kind |-> "none", at |-> 0]

\* The faults of one load_data call: none, the insert of row at (counted
\* over the whole call) raising, or the commit of batch at raising.
LoadFaults(n, batch_size) ==
    {NoFault}
    \cup {[kind |-> "row", at |-> i] : i \in 1..n}
    \cup {[kind |-> "commit", at |-> k] :
              k \in {j \in 1..n : batch_size > 0 /\ (j - 1) * batch_size < n}}

\* LoadFailed with a commit where the code rolls back.
LoadFailedCommits(c, db, side, ev, rbOk) ==
    [ok |-> FALSE, db |-> Commit(db), ev |-> ev \o <<Ev("commit", side)>>]

\* Lines 124-129: the except branch.
LoadFailed(c, db, side, ev, rbOk) ==
    IF c.connection # 0 /\ c.connection \in db.open /\ rbOk
    THEN [ok |-> FALSE, db |-> Rollback(db), ev |-> ev \o <<Ev("rollback", side)>>]
    ELSE [ok |-> FALSE, db |-> db, ev |-> ev \o <<EvFailed("rollback", side)>>]

\* Lines 109-117, from offset i on: one executemany and one commit a batch.
RECURSIVE LoadBatches(_, _, _, _, _, _, _, _, _, _)
LoadBatches(c, db, side, table, dest, rows, i, batch_size, f, rbOk) ==
    IF i >= Len(rows) THEN [ok |-> TRUE, db |-> db, ev |-> <<>>]
    ELSE LET batch == Slice(rows, i, i + batch_size)
             failAt == IF f.kind = "row" /\ f.at > i /\ f.at <= i + Len(batch)
                       THEN f.at - i ELSE 0
             ins == IF c.cursor = 0
                    THEN [ok |-> FALSE, db |-> db, ev |-> <<>>]
                    ELSE ExecuteMany(c, db, side, table, dest, batch, failAt)
         IN IF ~ins.ok THEN LoadFailed(c, ins.db, side, ins.ev, rbOk)
            ELSE IF (f.kind = "commit" /\ f.at = (i \div batch_size) + 1)
                    \/ c.connection \notin db.open
            THEN LoadFailed(c, ins.db, side,
                            ins.ev \o <<EvFailed("commit", side)>>, rbOk)
            ELSE LET rest == LoadBatches(c, Commit(ins.db), side, table, dest, rows,
                                         i + batch_size, batch_size, f, rbOk)
                 IN [rest EXCEPT !.ev = ins.ev \o <<Ev("commit", side)>> \o @]

\* Lines 107-129: range(0, total_rows, batch_size) raises inside the try for
\* a step of 0 and is empty for a negative step.
InsertInBatches(c, db, side, table, dest, rows, batch_size, f, rbOk) ==
    IF batch_size = 0 THEN LoadFailed(c, db, side, <<>>, rbOk)
    ELSE IF batch_size < 0 THEN [ok |-> TRUE, db |-> db, ev |-> <<>>]
    ELSE LoadBatches(c, db, side, table, dest, rows, 0, batch_size, f, rbOk)

LoadArgs(data, source_columns, target_table, target_columns, column_mapping, batch_size) ==
    [data |-> data, source_columns |-> source_columns, target_table |-> target_table,
     target_columns |-> target_columns, column_mapping |-> column_mapping,
     batch_size |-> batch_size]

\* Lines 119-129: r is what the batch loop left.
LoadInserted(con, r) ==
    [status |-> IF r.ok THEN "ok" ELSE "fail", c |-> con.c, db |-> r.db,
     ev |-> con.ev \o r.ev]

\* Lines 52-129: con is what the lazy connect left, res the resolution of
\* the columns.
LoadConnected(con, res, side, a, f, rbOk) ==
    IF ~con.ret
    THEN [status |-> "fail", c |-> con.c, db |-> con.db, ev |-> con.ev]
    ELSE IF res.status # "ok"
    THEN [status |-> res.status, c |-> con.c, db |-> con.db, ev |-> con.ev]
    ELSE LoadInserted(con, InsertInBatches(con.c, con.db, side, a.target_table,
                                           res.dest, res.rows, a.batch_size, f, rbOk))

\* load_data(...).  status is "ok" (True), "fail" (False) or "raise".
LoadData(c, db, side, a, cfault, f, rbOk) ==
    IF a.data = <<>> \/ a.source_columns = <<>>
    THEN [status |-> "fail", c |-> c, db |-> db, ev |-> <<>>]
    ELSE LoadConnected(Connected(c, db, side, cfault), Resolve(a), side, a, f, rbOk)

\* The CREATE TABLE IF NOT EXISTS statement of lines 154-157.
CreateQuery(target_table, column_definitions) ==
    Stmt("", "CREATE", "create", target_table, column_definitions.cols, 0,
         column_definitions.valid)

\* Lines 161-165 and 190-194: execute_query's None is not looked at and
\* execute_query raises nothing, so the try block always returns True.
StatementDone(ev, r) == [ret |-> TRUE, c |-> r.c, db |-> r.db, ev |-> ev \o r.ev]

\* Lines 149-165 and 182-194: con is what the lazy connect left, q the
\* statement the method builds.
StatementConnected(con, side, q, fault, rbOk) ==
    IF ~con.ret
    THEN [ret |-> FALSE, c |-> con.c, db |-> con.db, ev |-> con.ev]
    ELSE StatementDone(con.ev, ExecuteQuery(con.c, con.db, side, q, fault, rbOk))

\* create_table_if_not_exists(...)
CreateTableIfNotExists(c, db, side, target_table, column_definitions, cfault, fault, rbOk) ==
    IF column_definitions.cols = <<>>
    THEN [ret |-> FALSE, c |-> c, db |-> db, ev |-> <<>>]
    ELSE StatementConnected(Connected(c, db, side, cfault), side,
                            CreateQuery(target_table, column_definitions), fault, rbOk)

\* The DELETE FROM statement of line 186.
TruncateQuery(target_table) == Stmt("", "DELETE", "delete", target_table, <<>>, 0, TRUE)

\* truncate_table(...)
TruncateTable(c, db, side, target_table, cfault, fault, rbOk) ==
    StatementConnected(Connected(c, db, side, cfault), side,
                       TruncateQuery(target_table), fault, rbOk)

(***************************************************************************)
(* ETLPipeline.  A configuration is the set of the key paths it holds and  *)
(* the values under them.                                                  *)
(***************************************************************************)
TargetTable == "clientes_filtrados"

RequiredKeys == <<"source_db", "target_db", "extraction", "loading">>

\* ValidateConfig without the check of loading.target_table.
ValidateConfigNoTableCheck(cfg) ==
    /\ \A i \in 1..Len(RequiredKeys) : RequiredKeys[i] \in cfg.has
    /\ {"source_db.type", "source_db.connection_params", "target_db.type",
        "target_db.connection_params", "extraction.query"} \subseteq cfg.has

\* validate_config(): the checks of lines 82-111, in their order.
ValidateConfig(cfg) ==
    IF \E i \in 1..Len(RequiredKeys) : RequiredKeys[i] \notin cfg.has THEN FALSE
    ELSE IF "source_db.type" \notin cfg.has \/ "source_db.connection_params" \notin cfg.has
    THEN FALSE
    ELSE IF "target_db.type" \notin cfg.has \/ "target_db.connection_params" \notin cfg.has
    THEN FALSE
    ELSE IF "extraction.query" \notin cfg.has THEN FALSE
    ELSE IF "loading.target_table" \notin cfg.has THEN FALSE
    ELSE TRUE

\* loading_config.get('batch_size', 100)
DefaultBatchSize == 100

BatchSizeOf(cfg) == IF cfg.batch_size.some THEN cfg.batch_size.v ELSE DefaultBatchSize

\* The faults of one run, by the call they strike.
NoFaults ==
    [xc |-> "none", xq |-> "none", tc |-> "none", cq |-> "none", tq |-> "none",
     lf |-> NoFault, rb |-> TRUE, ds |-> "none", dt |-> "none"]

\* A call run() makes on the extractor or the loader, and whether it
\* returned True; it precedes what the call did to the engines.
CallEv(name, ret) == [e |-> name, side |-> "run", ok |-> ret, cols |-> <<>>, rows |-> <<>>]

\* What run() leaves: its return value ("true", "false", or "raise" for an
\* exception that leaves run), the connectors, the engines, the extractor.
Outcome(res, st) == [st EXCEPT !.result = res]

\* Lines 200-205.
RunDisconnect(st, F) ==
    LET d1 == Disconnect(st.src, st.srcdb, "src", F.ds)
        d2 == Disconnect(st.tgt, st.tgtdb, "tgt", F.dt)
    IN [result |-> "true", src |-> d1.c, srcdb |-> d1.db, tgt |-> d2.c, tgtdb |-> d2.db,
        ext |-> st.ext,
        log |-> st.log \o <<CallEv("disconnect", TRUE)>> \o d1.ev
                       \o <<CallEv("disconnect", TRUE)>> \o d2.ev]

\* The state of run() after a call on the loader: the target connector and
\* engine as the call left them, the call and what it did in the log.
AfterCall(st, name, ret, r) ==
    [st EXCEPT !.tgt = r.c, !.tgtdb = r.db, !.log = @ \o <<CallEv(name, ret)>> \o r.ev]

\* Lines 196-205: st is the state after load_data, status what it returned.
LoadReturned(st, F, status) ==
    IF status = "raise" THEN Outcome("raise", st)
    ELSE IF status = "fail" THEN Outcome("false", st)
    ELSE RunDisconnect(st, F)

\* Lines 189-205: r is what load_data left.
LoadStep(st, F, r) ==
    LoadReturned(AfterCall(st, "load_data", r.status = "ok", r), F, r.status)

\* Lines 187-205.
RunLoad(cfg, st, F) ==
    LoadStep(st, F,
             LoadData(st.tgt, st.tgtdb, "tgt",
                      LoadArgs(st.ext.data.v, st.ext.columns.v, cfg.target_table,
                               cfg.target_columns, cfg.column_mapping, BatchSizeOf(cfg)),
                      F.tc, F.lf, F.rb))

\* Lines 183-185: r is what truncate_table left.
TruncateStep(cfg, st, F, r) ==
    IF ~r.ret THEN Outcome("false", AfterCall(st, "truncate_table", r.ret, r))
    ELSE RunLoad(cfg, AfterCall(st, "truncate_table", r.ret, r), F)

\* RunTruncate with the table truncated whatever truncate_before_load says.
RunTruncateAlways(cfg, st, F) ==
    TruncateStep(cfg, st, F,
                 TruncateTable(st.tgt, st.tgtdb, "tgt", cfg.target_table,
                               F.tc, F.tq, F.rb))

\* Lines 181-185.
RunTruncate(cfg, st, F) ==
    IF cfg.truncate_before_load
    THEN TruncateStep(cfg, st, F,
                      TruncateTable(st.tgt, st.tgtdb, "tgt", cfg.target_table,
                                    F.tc, F.tq, F.rb))
    ELSE RunLoad(cfg, st, F)

\* Lines 177-179: r is what create_table_if_not_exists left.
CreateStep(cfg, st, F, r) ==
    IF ~r.ret THEN Outcome("false", AfterCall(st, "create_table_if_not_exists", r.ret, r))
    ELSE RunTruncate(cfg, AfterCall(st, "create_table_if_not_exists", r.ret, r), F)

\* Lines 174-179.
RunCreate(cfg, st, F) ==
    IF cfg.create_table /\ cfg.column_definitions.some
    THEN CreateStep(cfg, st, F,
                    CreateTableIfNotExists(st.tgt, st.tgtdb, "tgt", cfg.target_table,
                                           cfg.column_definitions.v, F.tc, F.cq, F.rb))
    ELSE RunTruncate(cfg, st, F)

\* The state of run() after extract_data: the extractor, the source
\* connector and engine as the call left them.
AfterExtract(st, r) ==
    [st EXCEPT !.ext = r.x, !.src = r.c, !.srcdb = r.db,
               !.log = @ \o <<CallEv("extract_data", r.ret)>> \o r.ev]

\* ExtractStep without the check of line 160 for an empty extraction.
ExtractStepNoEmptyCheck(cfg, st, F, r) ==
    IF ~r.ret THEN Outcome("false", AfterExtract(st, r))
    ELSE RunCreate(cfg, AfterExtract(st, r), F)

\* Lines 154-162: r is what extract_data left.
ExtractStep(cfg, st, F, r) ==
    IF ~r.ret THEN Outcome("false", AfterExtract(st, r))
    ELSE IF ~Truthy(r.x.data) \/ ~Truthy(r.x.columns)
    THEN Outcome("false", AfterExtract(st, r))
    ELSE RunCreate(cfg, AfterExtract(st, r), F)

\* Lines 148-162.
RunExtract(cfg, st, F) ==
    ExtractStep(cfg, st, F,
                ExtractData(st.ext, st.src, st.srcdb, "src", cfg.query, F.xc, F.xq, F.rb))

\* run(): st holds the engines as they are when run() is called; its
\* connectors and extractor are replaced by the ones run() constructs.
RunPipeline(cfg, st, F) ==
    IF ~ValidateConfig(cfg) THEN Outcome("false", st)
    ELSE RunExtract(cfg,
                    [st EXCEPT !.src = NewConnector(cfg.source_type),
                               !.tgt = NewConnector(cfg.target_type),
                               !.ext = NewExtractor],
                    F)

(***************************************************************************)
(* The inputs of a run: the source table of tests/test_sqlite.py, the      *)
(* configurations and the states of the target table.                      *)
(***************************************************************************)
ClientesColumns == <<"id", "nome", "email", "idade">>

\* idade of the five rows the test inserts.
Idades == <<35, 28, 42, 31, 39>>

Clientes == [i \in 1..Len(Idades) |-> <<i, 10 + i, 20 + i, Idades[i]>>]

SourceEngine == NewEngine("clientes", TRUE, ClientesColumns, Clientes)

\* A row of the target table that no extraction returns.
StaleRow == <<9, 19, 29, 50>>

TargetEngines ==
    {NewEngine(TargetTable, FALSE, <<>>, <<>>),
     NewEngine(TargetTable, TRUE, ClientesColumns, <<>>),
     NewEngine(TargetTable, TRUE, ClientesColumns, <<StaleRow>>)}

\* SELECT id, nome, email, idade FROM clientes WHERE idade > 30
QueryOver30 == Stmt("", "SELECT", "select", "clientes", ClientesColumns, 30, TRUE)

Queries ==
    {QueryOver30,
     Stmt(" ", "Select", "select", "clientes", <<>>, 0, TRUE),
     Stmt("", "select", "select", "clientes", ClientesColumns, 99, TRUE),
     Stmt("", "SELECT", "select", "missing", <<>>, 0, TRUE),
     Stmt("", "DELETE", "delete", "clientes", <<>>, 0, TRUE)}

SourceKeySets ==
    {{}} \cup {{"source_db"} \cup ks : ks \in SUBSET {"source_db.type", "source_db.connection_params"}}

TargetKeySets ==
    {{}} \cup {{"target_db"} \cup ks : ks \in SUBSET {"target_db.type", "target_db.connection_params"}}

ExtractionKeySets == {{}, {"extraction"}, {"extraction", "extraction.query"}}

LoadingKeySets == {{}, {"loading"}, {"loading", "loading.target_table"}}

KeySets ==
    {a \cup b \cup c \cup d : a \in SourceKeySets, b \in TargetKeySets,
                              c \in ExtractionKeySets, d \in LoadingKeySets}

AllKeys ==
    {"source_db", "source_db.type", "source_db.connection_params",
     "target_db", "target_db.type", "target_db.connection_params",
     "extraction", "extraction.query", "loading", "loading.target_table"}

\* create_table and column_definitions as configured together.
CreateOptions ==
    {<<FALSE, NoneV>>,
     <<TRUE, NoneV>>,
     <<TRUE, Some([cols |-> ClientesColumns, valid |-> TRUE])>>,
     <<TRUE, Some([cols |-> ClientesColumns, valid |-> FALSE])>>}

TargetColumnOptions == {NoneV, Some(ClientesColumns), Some(<<"id">>)}

MappingOptions == {NoneV, Some(<< <<"telefone", "phone">> >>)}

BatchSizeOptions == {NoneV, Some(0 - 1), Some(2)}

Config(has, source_type, query, target_columns, column_mapping, truncate, create, batch) ==
    [has |-> has, source_type |-> source_type, target_type |-> "sqlite", query |-> query,
     target_table |-> TargetTable, target_columns |-> target_columns,
     column_mapping |-> column_mapping, truncate_before_load |-> truncate,
     create_table |-> create[1], column_definitions |-> create[2], batch_size |-> batch]

\* The configuration of the test, under the keys has.
TestConfig(has) ==
    Config(has, "sqlite", QueryOver30, NoneV, NoneV, TRUE,
           <<TRUE, Some([cols |-> ClientesColumns, valid |-> TRUE])>>, NoneV)

\* self.config = {} of the constructor.
EmptyConfig == TestConfig({})

Configs ==
    {TestConfig(ks) : ks \in KeySets}
    \cup {Config(AllKeys, ty, q, tc, cm, tr, cr, b) :
            ty \in {"SQLite", "Oracle"}, q \in Queries, tc \in TargetColumnOptions,
            cm \in MappingOptions, tr \in BOOLEAN, cr \in CreateOptions,
            b \in BatchSizeOptions}

\* The number of calls of one run on which the engine raises for a reason
\* of its own.
MaxFaults == 1

Deviations(F) ==
    {[F EXCEPT !.xc = f] : f \in ConnectFaults \ {"none"}}
    \cup {[F EXCEPT !.xq = "exec"]}
    \cup {[F EXCEPT !.tc = f] : f \in ConnectFaults \ {"none"}}
    \cup {[F EXCEPT !.cq = f] : f \in StmtFaults \ {"none"}}
    \cup {[F EXCEPT !.tq = f] : f \in StmtFaults \ {"none"}}
    \cup {[F EXCEPT !.lf = f] : f \in LoadFaults(Len(Clientes), 2) \ {NoFault}}
    \cup {[F EXCEPT !.rb = FALSE]}
    \cup {[F EXCEPT !.ds = f] : f \in DisconnectFaults \ {"none"}}
    \cup {[F EXCEPT !.dt = f] : f \in DisconnectFaults \ {"none"}}

RECURSIVE FaultPlans(_)
FaultPlans(k) ==
    IF k = 0 THEN {NoFaults}
    ELSE LET P == FaultPlans(k - 1) IN P \cup UNION {Deviations(F) : F \in P}

NoArgs == LoadArgs(<<>>, <<>>, "", NoneV, NoneV, 0)

\* The last DataLoader call: its arguments, what it returned, the engine
\* before it and what it did to the engine.
Call(op, a, status, pre, prec, ev) ==
    [op |-> op, args |-> a, status |-> status, pre |-> pre, prec |-> prec, ev |-> ev]

NoCall == Call("none", NoArgs, "ok", NewEngine("", FALSE, <<>>, <<>>), NewConnector("sqlite"), <<>>)

Status(b) == IF b THEN "ok" ELSE "fail"

\* The source connector and engine where no run uses them.
IdleSrc == NewConnector("sqlite")

IdleSrcDb == NewEngine("", FALSE, <<>>, <<>>)

(***************************************************************************)
(* Spec: one ETLPipeline, from its construction to the return of run().    *)
(***************************************************************************)
Init ==
    /\ config = EmptyConfig
    /\ pc = "new"
    /\ result = "none"
    /\ src = IdleSrc
    /\ tgt = NewConnector("sqlite")
    /\ srcdb = SourceEngine
    /\ tgtdb \in TargetEngines
    /\ ext = NewExtractor
    /\ log = <<>>
    /\ last = NoCall
    /\ calls = 0

\* set_config(config)
SetConfig ==
    /\ pc = "new"
    /\ config' \in Configs
    /\ pc' = "configured"
    /\ UNCHANGED <<result, src, tgt, srcdb, tgtdb, ext, log, last, calls>>

\* run(), once, as main() calls it.  last keeps the engine as it was.
Run ==
    /\ pc \in {"new", "configured"}
    /\ \E F \in FaultPlans(MaxFaults) :
          \E r \in {RunPipeline(config,
                                [result |-> result, src |-> src, srcdb |-> srcdb,
                                 tgt |-> tgt, tgtdb |-> tgtdb, ext |-> ext, log |-> log],
                                F)} :
             /\ result' = r.result
             /\ src' = r.src
             /\ srcdb' = r.srcdb
             /\ tgt' = r.tgt
             /\ tgtdb' = r.tgtdb
             /\ ext' = r.ext
             /\ log' = r.log
    /\ last' = Call("run", NoArgs, "ok", tgtdb, tgt, <<>>)
    /\ pc' = "done"
    /\ UNCHANGED <<config, calls>>

Next == SetConfig \/ Run

Spec == Init /\ [][Next]_vars

(***************************************************************************)
(* The inputs of the DataLoader calls.                                     *)
(***************************************************************************)
MaxRows == 5

MaxBatch == 2

MaxCalls == 2

SourceColumns == <<"id", "nome", "idade">>

\* Row i of the input: three values, different from every other row's.
Row(i) == <<i, 10 + i, 30 + i>>

Data(n) == [i \in 1..n |-> Row(i)]

\* Two rows, the second with one value where source_columns names three.
ShortRowData == [Data(2) EXCEPT ![2] = <<2>>]

\* The data of a load_data call: up to MaxRows full rows, or the rows with
\* the short one.
LoadInputs == {Data(n) : n \in 0..MaxRows} \cup {ShortRowData}

BatchSizes == (0 - 1)..MaxBatch

\* The shapes the target table can have.
TableShapes == {<<"id", "nome", "idade">>, <<"age", "id", "name">>}

\* A row the target table holds before the calls.
OldRow == <<7, 8, 9>>

\* (target_columns, column_mapping) as the caller passes them.
ColumnModes ==
    {<<NoneV, NoneV>>,
     <<Some(<<>>), NoneV>>,
     <<Some(<<"id", "name", "age">>), NoneV>>,
     <<Some(<<"age">>), NoneV>>,
     <<Some(<<"id", "name", "age">>), Some(<<>>)>>,
     <<NoneV, Some(<< <<"idade", "age">> >>)>>,
     <<NoneV, Some(<< <<"idade", "age">>, <<"id", "id">> >>)>>,
     <<NoneV, Some(<< <<"email", "mail">> >>)>>,
     <<Some(<<"age">>), Some(<< <<"idade", "age">> >>)>>}

\* column_definitions: the columns in the dict's order, and whether the
\* type expressions make a statement the engine accepts.
ColumnDefinitions ==
    {[cols |-> <<>>, valid |-> TRUE]}
    \cup {[cols |-> sh, valid |-> v] : sh \in TableShapes, v \in BOOLEAN}

InitEngines ==
    {NewEngine(TargetTable, FALSE, <<>>, <<>>)}
    \cup {NewEngine(TargetTable, TRUE, sh, rows) : sh \in TableShapes, rows \in {<<>>, <<OldRow>>}}

InitLoader ==
    /\ config = EmptyConfig
    /\ pc = "idle"
    /\ result = "none"
    /\ src = IdleSrc
    /\ srcdb = IdleSrcDb
    /\ ext = NewExtractor
    /\ log = <<>>
    /\ tgt = NewConnector("sqlite")
    /\ tgtdb \in InitEngines
    /\ last = NoCall
    /\ calls = 0

PipelineUnchanged == UNCHANGED <<config, pc, result, src, srcdb, ext, log>>

\* connect() runs inside a call only when connection is None.
ConnectFaultsOf(c) == IF c.connection = 0 THEN ConnectFaults ELSE {"none"}

\* A call is possible while the behaviour is short enough; load_data ends it.
CanCall == calls < MaxCalls /\ last.op # "load"

LConnect ==
    /\ CanCall
    /\ \E fault \in ConnectFaults :
          \E r \in {Connect(tgt, tgtdb, "tgt", fault)} :
             /\ tgt' = r.c
             /\ tgtdb' = r.db
             /\ last' = Call("connect", NoArgs, Status(r.ret), tgtdb, tgt, r.ev)
    /\ calls' = calls + 1
    /\ PipelineUnchanged

LDisconnect ==
    /\ CanCall
    /\ \E fault \in DisconnectFaults :
          \E r \in {Disconnect(tgt, tgtdb, "tgt", fault)} :
             /\ tgt' = r.c
             /\ tgtdb' = r.db
             /\ last' = Call("disconnect", NoArgs, "ok", tgtdb, tgt, r.ev)
    /\ calls' = calls + 1
    /\ PipelineUnchanged

\* The arguments of a create_table_if_not_exists call; again says that the
\* call before it was the same call and returned True.
CreateArgs(defs) ==
    [defs |-> defs,
     again |-> last.op = "create" /\ last.status = "ok" /\ last.args.defs = defs,
     clean |-> \A i \in 1..Len(last.ev) : last.ev[i].ok]

LCreate ==
    /\ CanCall
    /\ \E defs \in ColumnDefinitions, cfault \in ConnectFaultsOf(tgt),
          fault \in StmtFaults, rbOk \in BOOLEAN :
          \E r \in {CreateTableIfNotExists(tgt, tgtdb, "tgt", TargetTable, defs,
                                           cfault, fault, rbOk)} :
             /\ tgt' = r.c
             /\ tgtdb' = r.db
             /\ last' = Call("create", CreateArgs(defs), Status(r.ret), tgtdb, tgt, r.ev)
    /\ calls' = calls + 1
    /\ PipelineUnchanged

LTruncate ==
    /\ CanCall
    /\ \E cfault \in ConnectFaultsOf(tgt), fault \in StmtFaults, rbOk \in BOOLEAN :
          \E r \in {TruncateTable(tgt, tgtdb, "tgt", TargetTable, cfault, fault, rbOk)} :
             /\ tgt' = r.c
             /\ tgtdb' = r.db
             /\ last' = Call("truncate", NoArgs, Status(r.ret), tgtdb, tgt, r.ev)
    /\ calls' = calls + 1
    /\ PipelineUnchanged

LLoad ==
    /\ CanCall
    /\ \E d \in LoadInputs, b \in BatchSizes, m \in ColumnModes,
          cfault \in ConnectFaultsOf(tgt), rbOk \in BOOLEAN :
          \E f \in LoadFaults(Len(d), b) :
             LET a == LoadArgs(d, SourceColumns, TargetTable, m[1], m[2], b)
             IN \E r \in {LoadData(tgt, tgtdb, "tgt", a, cfault, f, rbOk)} :
                /\ tgt' = r.c
                /\ tgtdb' = r.db
                /\ last' = Call("load", a, r.status, tgtdb, tgt, r.ev)
    /\ calls' = calls + 1
    /\ PipelineUnchanged

NextLoader == LConnect \/ LDisconnect \/ LCreate \/ LTruncate \/ LLoad

SpecLoader == InitLoader /\ [][NextLoader]_vars

(***************************************************************************)
(* SpecConn: one DatabaseConnector on the source database and one          *)
(* DataExtractor over it, called in any order.  log keeps the extract_data *)
(* calls that returned True, with what they stored.                        *)
(***************************************************************************)
MaxConnCalls == 3

ConnectorTypes == {"sqlite", "Oracle"}

\* The statements execute_query is called with.
Statements == Queries \cup {Stmt("", "DELETE", "delete", "missing", <<>>, 0, TRUE)}

\* get_extracted_data()
GetExtractedData(x) == <<x.data, x.columns>>

InitConn ==
    /\ config = EmptyConfig
    /\ pc = "idle"
    /\ result = "none"
    /\ src \in {NewConnector(t) : t \in ConnectorTypes}
    /\ srcdb = SourceEngine
    /\ ext = NewExtractor
    /\ log = <<>>
    /\ tgt = NewConnector("sqlite")
    /\ tgtdb = IdleSrcDb
    /\ last = NoCall
    /\ calls = 0

TargetUnchanged == UNCHANGED <<config, pc, result, tgt, tgtdb>>

CanCallConn == calls < MaxConnCalls

XConnect ==
    /\ CanCallConn
    /\ \E fault \in ConnectFaults :
          \E r \in {Connect(src, srcdb, "src", fault)} :
             /\ src' = r.c
             /\ srcdb' = r.db
             /\ last' = Call("connect", NoArgs, Status(r.ret), srcdb, src, r.ev)
    /\ calls' = calls + 1
    /\ UNCHANGED <<ext, log>>
    /\ TargetUnchanged

XDisconnect ==
    /\ CanCallConn
    /\ \E fault \in DisconnectFaults :
          \E r \in {Disconnect(src, srcdb, "src", fault)} :
             /\ src' = r.c
             /\ srcdb' = r.db
             /\ last' = Call("disconnect", NoArgs, "ok", srcdb, src, r.ev)
    /\ calls' = calls + 1
    /\ UNCHANGED <<ext, log>>
    /\ TargetUnchanged

XExecute ==
    /\ CanCallConn
    /\ \E q \in Statements, fault \in StmtFaults, rbOk \in BOOLEAN :
          \E r \in {ExecuteQuery(src, srcdb, "src", q, fault, rbOk)} :
             /\ src' = r.c
             /\ srcdb' = r.db
             /\ last' = Call("execute", q, Status(r.ret.some), srcdb, src, r.ev)
    /\ calls' = calls + 1
    /\ UNCHANGED <<ext, log>>
    /\ TargetUnchanged

XExtract ==
    /\ CanCallConn
    /\ \E q \in Queries, cfault \in ConnectFaultsOf(src), fault \in {"none", "exec"} :
          \E r \in {ExtractData(ext, src, srcdb, "src", q, cfault, fault, TRUE)} :
             /\ src' = r.c
             /\ srcdb' = r.db
             /\ ext' = r.x
             /\ log' = IF r.ret THEN Append(log, GetExtractedData(r.x)) ELSE log
             /\ last' = Call("extract", q, Status(r.ret), srcdb, src, r.ev)
    /\ calls' = calls + 1
    /\ TargetUnchanged

NextConn == XConnect \/ XDisconnect \/ XExecute \/ XExtract

SpecConn == InitConn /\ [][NextConn]_vars

(***************************************************************************)
(* Properties of the DataLoader calls, checked under SpecLoader.           *)
(***************************************************************************)
IsInsert(e) == e.e = "insert"

Inserts(ev) == SelectSeq(ev, IsInsert)

\* The rows the session saw in the table when the call began.
BaseRows == IF last.prec.connection = 0 THEN last.pre.committed ELSE last.pre.work

StoredRows(dest, rows) == [i \in 1..Len(rows) |-> StoredRow(tgtdb.cols, dest, rows[i])]

\* C1: in load_data with batch_size >= 1, when the insert of batch k
\* raises, the rollback is attempted right after it, no later batch is
\* inserted, load_data returns False, and the committed table is the one
\* before the call for k = 1 and otherwise the session's rows plus the
\* first (k-1)*batch_size projected rows: nothing of batch k.
C1_FailedBatch ==
    (last.op = "load" /\ last.args.batch_size >= 1) =>
        LET ins == Inserts(last.ev)
            b == last.args.batch_size
            res == Resolve(last.args)
        IN \A k \in 1..Len(ins) :
              ~ins[k].ok =>
                 /\ k = Len(ins)
                 /\ last.ev[Len(last.ev)].e = "rollback"
                 /\ last.ev[Len(last.ev) - 1] = ins[k]
                 /\ last.status = "fail"
                 /\ (k - 1) * b < Len(res.rows)
                 /\ tgtdb.committed =
                       IF k = 1 THEN last.pre.committed
                       ELSE BaseRows \o StoredRows(res.dest, SubSeq(res.rows, 1, (k - 1) * b))

\* Five rows in batches of two, the second batch failing on its second
\* row: two rows are committed.
C1_Witness ==
    /\ last.op = "load"
    /\ last.args.data = Data(5)
    /\ last.args.batch_size = 2
    /\ ~last.args.target_columns.some /\ ~last.args.column_mapping.some
    /\ Len(Inserts(last.ev)) = 2
    /\ ~Inserts(last.ev)[2].ok
    /\ Inserts(last.ev)[2].rows = <<Row(3)>>
    /\ last.status = "fail"
    /\ last.pre.committed = <<OldRow>>
    /\ tgtdb.committed = <<OldRow, Row(1), Row(2)>>

\* C3: a load_data call with neither target_columns nor column_mapping
\* that returns True has added the input rows to the table, all of them and
\* in input order, every insert naming the source columns in their order.
C3_IdentityLoad ==
    (/\ last.op = "load"
     /\ ~last.args.target_columns.some /\ ~last.args.column_mapping.some
     /\ last.args.data # <<>>
     /\ last.status = "ok") =>
        /\ tgtdb.committed = BaseRows \o StoredRows(last.args.source_columns, last.args.data)
        /\ \A i \in 1..Len(last.ev) :
              IsInsert(last.ev[i]) => last.ev[i].cols = last.args.source_columns

\* The statement of the given kind was issued and it, or its commit, raised.
StatementFailed(ev, kind) ==
    \E i \in 1..Len(ev) :
       \/ ev[i].e = kind /\ ~ev[i].ok
       \/ ev[i].e = kind /\ i < Len(ev) /\ ev[i + 1].e = "commit" /\ ~ev[i + 1].ok

StatementSucceeded(ev, kind) ==
    \E i \in 1..Len(ev) : ev[i].e = kind /\ ev[i].ok /\ ~StatementFailed(ev, kind)

\* C7: create_table_if_not_exists returns False whenever its CREATE
\* statement fails, and True only when the statement executed without error.
C7_CreateReportsFailure ==
    last.op = "create" =>
        /\ StatementFailed(last.ev, "create") => last.status = "fail"
        /\ last.status = "ok" => StatementSucceeded(last.ev, "create")

\* C8: truncate_table returns False when the table does not exist; when it
\* exists and the engine raises nothing, its rows are deleted, the delete is
\* committed and True is returned.
C8_TruncateMissingTable ==
    last.op = "truncate" =>
        /\ ~last.pre.exists => last.status = "fail"
        /\ (last.pre.exists /\ StatementSucceeded(last.ev, "delete")) =>
              /\ last.status = "ok"
              /\ tgtdb.committed = <<>>
              /\ last.ev[Len(last.ev)] = Ev("commit", "tgt")

\* The rows of the inserts of a call, in the order they were issued.
RECURSIVE InsertedRows(_)
InsertedRows(ins) ==
    IF ins = <<>> THEN <<>> ELSE Head(ins).rows \o InsertedRows(Tail(ins))

\* A load_data call with rows and a column_mapping, empty or not.
MappedLoad ==
    /\ last.op = "load"
    /\ last.args.data # <<>>
    /\ last.args.column_mapping.some

\* The positions of the source columns that are keys of the mapping.
KeptPositions(a) ==
    {i \in 1..Len(a.source_columns) : HasKey(a.column_mapping.v, a.source_columns[i])}

\* C11: under a column_mapping load_data keeps exactly the source columns
\* that are keys of the mapping: every insert names the mapped names of the
\* kept columns and nothing else, every inserted row has one value a kept
\* column, the value of the source row at that column, row j of the inserts
\* is made from row j of the input, a call that returns True (batch_size
\* >= 1) has inserted as many rows as the input has; with no source column
\* in the mapping the call returns False and inserts nothing.
C11_MappingProjection ==
    MappedLoad =>
        LET a == last.args
            K == KeptPositions(a)
            ins == Inserts(last.ev)
            rows == InsertedRows(ins)
        IN /\ K = {} =>
                 /\ last.status = "fail"
                 /\ ins = <<>>
                 /\ tgtdb.committed = last.pre.committed
           /\ K # {} =>
                 /\ \A k \in 1..Len(ins) :
                       /\ Len(ins[k].cols) = Cardinality(K)
                       /\ Range(ins[k].cols) =
                             {Lookup(a.column_mapping.v, a.source_columns[i]) : i \in K}
                 /\ Len(rows) <= Len(a.data)
                 /\ \A j \in 1..Len(rows) :
                       /\ Len(rows[j]) = Cardinality(K)
                       /\ \A i \in K :
                             rows[j][ColIndex(ins[1].cols,
                                              Lookup(a.column_mapping.v, a.source_columns[i]))]
                                = a.data[j][i]
                 /\ (last.status = "ok" /\ a.batch_size >= 1) => Len(rows) = Len(a.data)

\* The entries of the mapping whose key is a source column, in the order
\* the mapping holds them.
MappedInOrder(a) ==
    LET InSource(p) == p[1] \in Range(a.source_columns)
    IN SelectSeq(a.column_mapping.v, InSource)

\* C12: under a column_mapping that keeps two or more source columns, every
\* insert names the target columns in the order of the mapping's entries,
\* and every inserted row holds its values in that order.
C12_MappingInsertionOrder ==
    (MappedLoad /\ Cardinality(KeptPositions(last.args)) >= 2) =>
        LET a == last.args
            kept == MappedInOrder(a)
            ins == Inserts(last.ev)
            rows == InsertedRows(ins)
        IN /\ \A k \in 1..Len(ins) : ins[k].cols = [p \in 1..Len(kept) |-> kept[p][2]]
           /\ \A j \in 1..Len(rows) :
                 rows[j] = [p \in 1..Len(kept) |->
                               a.data[j][ColIndex(a.source_columns, kept[p][1])]]

\* C13: the column resolution of load_data follows the precedence
\* column_mapping, target_columns, identity.  With both given every insert
\* names mapped names only, whatever target_columns holds; with
\* target_columns alone a length other than that of source_columns makes
\* the call return False with no insert, and an equal length makes every
\* insert name target_columns over unprojected rows; with neither every
\* insert names source_columns.
C13_ResolutionPrecedence ==
    (last.op = "load" /\ last.args.data # <<>>) =>
        LET a == last.args
            ins == Inserts(last.ev)
            rows == InsertedRows(ins)
        IN /\ (a.column_mapping.some /\ a.target_columns.some) =>
                 \A k \in 1..Len(ins) :
                    Range(ins[k].cols) =
                       {Lookup(a.column_mapping.v, a.source_columns[i]) :
                           i \in KeptPositions(a)}
           /\ (~a.column_mapping.some /\ a.target_columns.some) =>
                 IF Len(a.target_columns.v) # Len(a.source_columns)
                 THEN last.status = "fail" /\ ins = <<>>
                 ELSE /\ \A k \in 1..Len(ins) : ins[k].cols = a.target_columns.v
                      /\ rows = SubSeq(a.data, 1, Len(rows))
           /\ (~a.column_mapping.some /\ ~a.target_columns.some) =>
                 /\ \A k \in 1..Len(ins) : ins[k].cols = a.source_columns
                 /\ rows = SubSeq(a.data, 1, Len(rows))

\* ceil(n / b) for b >= 1.
CeilDiv(n, b) == (n + b - 1) \div b

\* C14: a load_data call with batch_size >= 1 that resolves its columns
\* issues its inserts over consecutive slices of the projected rows: every
\* insert that did not raise is followed at once by a commit, every insert
\* but the last holds batch_size rows, the rows of the inserts put together
\* are the first of the projected rows in their order, and a call that
\* returns True has issued ceil(n / batch_size) inserts, the last of 1 to
\* batch_size rows, that hold all n projected rows.
C14_Batching ==
    (/\ last.op = "load"
     /\ last.args.data # <<>>
     /\ last.args.batch_size >= 1
     /\ Resolve(last.args).status = "ok") =>
        LET b == last.args.batch_size
            projected == Resolve(last.args).rows
            n == Len(projected)
            ev == last.ev
            ins == Inserts(ev)
            rows == InsertedRows(ins)
        IN /\ \A i \in 1..Len(ev) :
                 (IsInsert(ev[i]) /\ ev[i].ok) =>
                    /\ i < Len(ev)
                    /\ ev[i + 1].e = "commit"
           /\ \A k \in 1..(Len(ins) - 1) : ins[k].ok /\ Len(ins[k].rows) = b
           /\ Len(ins) <= CeilDiv(n, b)
           /\ Len(rows) <= n
           /\ rows = SubSeq(projected, 1, Len(rows))
           /\ last.status = "ok" =>
                 /\ Len(ins) = CeilDiv(n, b)
                 /\ Len(ins[Len(ins)].rows) \in 1..b
                 /\ rows = projected
                 /\ \A i \in 1..Len(ev) : IsInsert(ev[i]) => ev[i + 1] = Ev("commit", "tgt")

\* Five rows in batches of two: inserts of 2, 2 and 1 rows, each committed.
C14_Witness ==
    /\ last.op = "load"
    /\ last.args.data = Data(5)
    /\ last.args.batch_size = 2
    /\ last.status = "ok"
    /\ Len(Inserts(last.ev)) = 3
    /\ Len(Inserts(last.ev)[1].rows) = 2
    /\ Len(Inserts(last.ev)[2].rows) = 2
    /\ Len(Inserts(last.ev)[3].rows) = 1
    /\ Len(SelectSeq(last.ev, LAMBDA e : e.e = "commit" /\ e.ok)) = 3

\* C21: every call on the loader ends with True or False, whatever its
\* arguments and whatever the driver does: no exception leaves load_data,
\* create_table_if_not_exists, truncate_table, connect or disconnect, a
\* load_data under a column_mapping over a row shorter than source_columns
\* included.
C21_NoExceptionEscapes ==
    last.op # "none" => last.status \in {"ok", "fail"}

\* C27: for every batch_size, zero and negative included, a load_data call
\* that returns True has inserted every projected row and committed it: the
\* rows of its inserts are the projected rows and the committed table is
\* the table the session saw plus those rows.
C27_SuccessMeansAllRowsLoaded ==
    (last.op = "load" /\ last.status = "ok") =>
        LET res == Resolve(last.args)
        IN /\ InsertedRows(Inserts(last.ev)) = res.rows
           /\ tgtdb.committed = BaseRows \o StoredRows(res.dest, res.rows)

\* The table of an engine: whether it exists, its columns, its rows.
TableOf(db) == <<db.exists, db.cols, db.committed, db.work>>

\* C19: a create_table_if_not_exists call that repeats the call before it,
\* same table and same column definitions, returns True as the first did;
\* when every statement of the first call was accepted and the table exists
\* after it, its columns and rows are untouched by the second, whatever the
\* driver does in the second; and the call applied twice under the same
\* behaviour of the driver leaves the table of its first application.
C19_CreateTwice ==
    last.op = "create" =>
        /\ last.args.again =>
              /\ last.status = "ok"
              /\ (last.args.clean /\ last.pre.exists) =>
                    TableOf(tgtdb) = TableOf(last.pre)
        /\ \A cfault \in ConnectFaults, fault \in StmtFaults, rbOk \in BOOLEAN :
              LET first == CreateTableIfNotExists(last.prec, last.pre, "tgt", TargetTable,
                                                  last.args.defs, cfault, fault, rbOk)
                  second == CreateTableIfNotExists(first.c, first.db, "tgt", TargetTable,
                                                   last.args.defs, cfault, fault, rbOk)
              IN first.ret => (second.ret /\ TableOf(second.db) = TableOf(first.db))

\* The first call creates the table, the second finds it and leaves it.
C19_Witness ==
    /\ last.op = "create"
    /\ last.args.again
    /\ last.args.clean
    /\ calls = 2
    /\ last.args.defs.valid
    /\ last.pre.exists
    /\ last.pre.cols = last.args.defs.cols
    /\ \E i \in 1..Len(last.ev) : last.ev[i] = Ev("create", "tgt")
    /\ last.status = "ok"
    /\ tgtdb.cols = last.args.defs.cols
    /\ tgtdb.committed = <<>>

(***************************************************************************)
(* Properties of the connector and the extractor, checked under SpecConn.  *)
(***************************************************************************)
\* C15: get_extracted_data returns the pair stored by the latest
\* extract_data call that returned True, and (None, None) when none has.
C15_LastSuccessfulExtraction ==
    GetExtractedData(ext) = IF log = <<>> THEN <<NoneV, NoneV>> ELSE log[Len(log)]

\* C16: extract_data with a query that does not start with SELECT, blanks
\* and case apart, returns False with no call on the driver: no connect, no
\* statement, the connector and the engine's sessions as they were.
C16_RejectedQueryTouchesNothing ==
    (last.op = "extract" /\ ~StartsWithSelect(last.args)) =>
        /\ last.status = "fail"
        /\ last.ev = <<>>
        /\ src = last.prec
        /\ srcdb = last.pre

\* A DELETE passed to extract_data on a connector whose session is open.
C16_Witness ==
    /\ last.op = "extract"
    /\ last.args.word = "DELETE"
    /\ last.prec.connection # 0 /\ last.prec.connection \in last.pre.open
    /\ last.status = "fail"
    /\ srcdb.committed = Clientes

\* The statement of the call, or its commit, raised.
ExecutionRaised == \E i \in 1..Len(last.ev) : ~last.ev[i].ok /\ last.ev[i].e # "rollback"

\* C17: when the execution of a statement raises, read or write,
\* execute_query attempts a rollback and returns None; a rollback that
\* raises changes nothing of that.
C17_RollbackOnEveryError ==
    (last.op = "execute" /\ ExecutionRaised) =>
        /\ last.status = "fail"
        /\ last.ev[Len(last.ev)].e = "rollback"

\* C18: disconnect() returns normally in every state and under every
\* failure of the driver; with no connection it calls nothing; it closes
\* the cursor, if there is one, before the session and never the session
\* first; called again under the same behaviour of the driver it leaves the
\* connector and the engine as the first call left them.
C18_DisconnectIdempotent ==
    last.op = "disconnect" =>
        /\ last.status = "ok"
        /\ last.prec.connection = 0 => (last.ev = <<>> /\ src = last.prec /\ srcdb = last.pre)
        /\ \A i \in 1..Len(last.ev) :
              last.ev[i].e = "close" =>
                 /\ i = Len(last.ev)
                 /\ last.prec.cursor # 0 => (i = 2 /\ last.ev[1] = Ev("close_cursor", "src"))
        /\ \A f \in DisconnectFaults :
              LET first == Disconnect(last.prec, last.pre, "src", f)
                  second == Disconnect(first.c, first.db, "src", f)
              IN second.c = first.c /\ second.db = first.db
        /\ (last.prec.cursor_closed /\ last.prec.connection \notin last.pre.open) =>
              (src = last.prec /\ srcdb = last.pre)

\* connect, disconnect, disconnect: the second disconnect finds the cursor
\* and the session closed and leaves everything as it was.
C18_Witness ==
    /\ last.op = "disconnect"
    /\ calls = 3
    /\ last.prec.connection # 0
    /\ last.prec.cursor_closed
    /\ last.pre.open = {}
    /\ src = last.prec
    /\ srcdb = last.pre

\* C22: after any sequence of calls on one connector at most one session
\* it opened is open on the engine, and it is the one the connector holds:
\* connect() on a connector that holds an open session leaves no earlier
\* session open.
C22_AtMostOneSession ==
    /\ Cardinality(srcdb.open) <= 1
    /\ \A id \in srcdb.open : id = src.connection

\* C23: extract_data connects lazily.  Called with an accepted query on a
\* connector of a supported type that holds no open session, never
\* connected or disconnected earlier, it starts by opening one; called on a
\* connector whose session is open it opens none.
C23_LazyConnect ==
    (/\ last.op = "extract"
     /\ StartsWithSelect(last.args)
     /\ last.prec.db_type \in SupportedTypes) =>
        IF last.prec.connection \in last.pre.open
        THEN /\ srcdb.opened = last.pre.opened
             /\ \A i \in 1..Len(last.ev) : last.ev[i].e # "connect"
        ELSE /\ last.ev # <<>>
             /\ last.ev[1].e = "connect"
             /\ last.ev[1].ok => srcdb.opened = last.pre.opened + 1

\* C26: get_column_names returns names only when the latest statement
\* executed on the connector was a read query that succeeded.  It returns
\* None on a connector that made no call, after a connect that returned
\* True, after a statement that raised or that was not a read, and after a
\* disconnect that closed the session.
C26_ColumnsOnlyAfterRead ==
    LET names == GetColumnNames(src)
    IN /\ last.op = "none" => ~names.some
       /\ (last.op = "connect" /\ last.status = "ok") => ~names.some
       /\ (last.op = "execute" /\ names.some) =>
             (last.status = "ok" /\ last.args.kind = "select")
       /\ (last.op = "extract" /\ StartsWithSelect(last.args) /\ names.some) =>
             last.status = "ok"
       /\ (last.op = "disconnect" /\ Ev("close", "src") \in Range(last.ev)) => ~names.some

(***************************************************************************)
(* Properties of run(), checked under Spec.                                *)
(***************************************************************************)
Returned == pc = "done"

\* The call run() made on the extractor or the loader, if it made it.
Called(name) == \E i \in 1..Len(log) : log[i].side = "run" /\ log[i].e = name

CallFailed(name) == \E i \in 1..Len(log) : log[i].side = "run" /\ log[i].e = name /\ ~log[i].ok

TargetEvents == {i \in 1..Len(log) : log[i].side = "tgt"}

IdentityMapping == ~config.target_columns.some /\ ~config.column_mapping.some

\* C2: when run() has returned on a configuration that holds every required
\* key, no session of the source or of the target engine is open.
C2_SessionsClosed ==
    (Returned /\ AllKeys \subseteq config.has) => (srcdb.open = {} /\ tgtdb.open = {})

\* A run that returned True under identity mapping, create_table with
\* column_definitions and truncate_before_load.
RoundTripRun ==
    /\ Returned /\ result = "true"
    /\ IdentityMapping
    /\ config.create_table /\ config.column_definitions.some
    /\ config.truncate_before_load

\* C4: a run that returns True with identity mapping, create_table with
\* column_definitions and truncate_before_load leaves in the target table
\* exactly the extracted rows, same values, order and count, whatever the
\* table held before.
C4_RoundTrip == RoundTripRun => tgtdb.committed = ext.data.v

\* C4, the scenario: for the query of the test such a run leaves exactly
\* three rows, inserted in one batch under the default batch size.
C4_ClientesScenario ==
    (RoundTripRun /\ config.query = QueryOver30 /\ ~config.batch_size.some) =>
        /\ Len(tgtdb.committed) = 3
        /\ Len(Inserts(log)) = 1

\* The column resolution of load_data cannot succeed on the extracted
\* columns: no column is a key of the mapping, or target_columns has
\* another length.
ResolutionFails ==
    /\ Truthy(ext.columns)
    /\ \/ /\ Truthy(config.column_mapping)
          /\ \A i \in 1..Len(ext.columns.v) : ~HasKey(config.column_mapping.v, ext.columns.v[i])
       \/ /\ ~Truthy(config.column_mapping)
          /\ Truthy(config.target_columns)
          /\ Len(config.target_columns.v) # Len(ext.columns.v)

\* C5: when the load step of run() fails on the column resolution, the
\* target table holds after run() what it held before.
C5_NoWriteOnResolutionFailure ==
    (Returned /\ CallFailed("load_data") /\ ResolutionFails) =>
        tgtdb.committed = last.pre.committed

\* C6: when the CREATE or the DELETE statement of run() fails on the target
\* engine, run() returns False and calls nothing on the loader afterwards.
C6_ShortCircuit ==
    Returned =>
        \A i \in TargetEvents :
           (log[i].e \in {"create", "delete"} /\ ~log[i].ok) =>
              /\ result = "false"
              /\ \A j \in (i + 1)..Len(log) :
                    log[j].e \notin {"truncate_table", "load_data", "delete", "insert"}

\* C9: when extract_data returns False, or returns True with no rows, run()
\* returns False having executed nothing on the target engine: no session,
\* no statement, the table as it was.
C9_NoTargetStatement ==
    (Returned /\ (CallFailed("extract_data") \/ (Called("extract_data") /\ ext.data = Some(<<>>)))) =>
        /\ result = "false"
        /\ TargetEvents = {}
        /\ tgtdb = last.pre

\* An extraction of no rows under truncate_before_load and create_table,
\* with a row in the target table.
C9_Witness ==
    /\ Returned
    /\ Called("extract_data") /\ ~CallFailed("extract_data")
    /\ ext.data = Some(<<>>)
    /\ config.truncate_before_load /\ config.create_table
    /\ last.pre.committed = <<StaleRow>>
    /\ tgtdb.committed = <<StaleRow>>
    /\ result = "false"

DisconnectCalls == {i \in 1..Len(log) : log[i].side = "run" /\ log[i].e = "disconnect"}

\* C20: run() returns True only when the configuration was valid, the
\* extraction returned rows, and no statement of a configured create or
\* truncate step and no insert or commit of the load raised; and when it
\* returns True it has called disconnect on both connectors, after the last
\* commit of the load.
C20_SuccessOnlyIfAllSucceeded ==
    (Returned /\ result = "true") =>
        /\ ValidateConfig(config)
        /\ Called("extract_data") /\ ~CallFailed("extract_data")
        /\ Truthy(ext.data)
        /\ \A i \in TargetEvents :
              log[i].e \in {"create", "delete", "insert", "commit"} => log[i].ok
        /\ Cardinality(DisconnectCalls) = 2
        /\ \A i \in TargetEvents :
              log[i].e = "commit" => \A d \in DisconnectCalls : i < d

\* The positions of the log where the driver was called with e on side.
DriverCalls(side, e) == {i \in 1..Len(log) : log[i].side = side /\ log[i].e = e}

\* The positions of the log where run() called the method name.
RunCalls(name) == {i \in 1..Len(log) : log[i].side = "run" /\ log[i].e = name}

\* C24: in every run() the source session is opened before the target
\* session, the target session is open before the extraction query is
\* executed, and the load has returned True before run() closes the
\* connections and returns True.
C24_StateOrder ==
    Returned =>
        /\ \A i \in DriverCalls("src", "connect"), j \in DriverCalls("tgt", "connect") : i < j
        /\ \A j \in DriverCalls("src", "select") :
              \E i \in DriverCalls("tgt", "connect") : i < j /\ log[i].ok
        /\ result = "true" =>
              \E k \in RunCalls("load_data") :
                 /\ log[k].ok
                 /\ \A d \in DisconnectCalls : k < d

\* run() got past the extraction and its empty check.
ReachedLoading ==
    /\ Returned
    /\ Called("extract_data") /\ ~CallFailed("extract_data")
    /\ Truthy(ext.data) /\ Truthy(ext.columns)

CreateCalls == RunCalls("create_table_if_not_exists")

TruncateCalls == RunCalls("truncate_table")

\* C25: in a run() that reaches the loading step the loader is called in
\* the order create_table_if_not_exists, truncate_table, load_data, each at
\* most once.  The create call is made exactly when create_table is set and
\* column_definitions is there; the truncate call exactly when
\* truncate_before_load is set and the create call did not return False;
\* load_data exactly when neither returned False.  Every statement of the
\* create and truncate calls, commit or rollback included, precedes the
\* load_data call, and every insert follows it.
C25_TargetStepOrder ==
    ReachedLoading =>
        /\ Cardinality(CreateCalls) <= 1
        /\ Cardinality(TruncateCalls) <= 1
        /\ Cardinality(RunCalls("load_data")) <= 1
        /\ CreateCalls # {} <=> (config.create_table /\ config.column_definitions.some)
        /\ TruncateCalls # {} <=>
              (config.truncate_before_load /\ ~CallFailed("create_table_if_not_exists"))
        /\ RunCalls("load_data") # {} <=>
              (~CallFailed("create_table_if_not_exists") /\ ~CallFailed("truncate_table"))
        /\ \A c \in CreateCalls, t \in TruncateCalls : c < t
        /\ \A c \in CreateCalls \cup TruncateCalls, l \in RunCalls("load_data") : c < l
        /\ \A i \in DriverCalls("tgt", "create") : \E c \in CreateCalls : c < i
        /\ \A i \in DriverCalls("tgt", "create"), t \in TruncateCalls : i < t
        /\ \A i \in DriverCalls("tgt", "delete") : \E t \in TruncateCalls : t < i
        /\ \A i \in DriverCalls("tgt", "create") \cup DriverCalls("tgt", "delete"),
              l \in RunCalls("load_data") : i + 1 < l
        /\ \A i \in DriverCalls("tgt", "insert") : \E l \in RunCalls("load_data") : l < i

\* A run that creates the table, empties it and loads the extracted rows.
C25_Witness ==
    /\ ReachedLoading
    /\ result = "true"
    /\ CreateCalls # {} /\ TruncateCalls # {}
    /\ DriverCalls("tgt", "create") # {} /\ DriverCalls("tgt", "delete") # {}
    /\ DriverCalls("tgt", "insert") # {}
    /\ last.pre.committed = <<StaleRow>>
    /\ tgtdb.committed = ext.data.v

====
